---- MODULE Spec2Model ----
(***************************************************************************)
(* Model of the preemptive scheduler: the PCB table and allocator, the     *)
(* ready and sleeping queues, the dispatcher, blocking sleep, and the two  *)
(* assembly entry paths (timer interrupt irq0_entry and sysentry).         *)
(*                                                                         *)
(* Every C function is an operator from kernel state to kernel state; a    *)
(* kernel state is a record holding the globals of scheduler.c and         *)
(* entry.S.  An action runs one whole handler (interrupts are disabled     *)
(* from its first to its last instruction on this uniprocessor) and        *)
(* stores the resulting record in the variables.                           *)
(***************************************************************************)
EXTENDS Integers, Sequences, FiniteSets, TLC

(***************************************************************************)
(* Bounds of the model and program constants.                              *)
(***************************************************************************)
\* Size of process_table (MAX_PROCESSES comes from scheduler.h).
MaxProcesses == 5
\* The 32-bit low word of time_elapsed, scaled so that its wrap is reached.
WordMod == 2
\* Timer ticks are taken while the 64-bit counter value is below MaxTime.
MaxTime == 2
\* pcb_allocate is called while next_pid <= MaxPid.
MaxPid == 3
\* Largest syscall-nesting depth a running process takes between dispatches.
MaxNested == 1
\* SpecRR takes timer ticks while the counter value is below RRMaxTime.
RRMaxTime == 6
\* SpecRR counts the ticks and dispatches of a steady period up to RRTicks.
RRTicks == 6
\* SpecWake takes WakeTicks timer ticks after the sleep call.
WakeTicks == 10
\* SpecAlloc calls pcb_allocate while next_pid <= AllocMaxPid.
AllocMaxPid == 6
\* SpecPrio calls pcb_allocate while next_pid <= PrioMaxPid.
PrioMaxPid == 2
\* SpecSem calls pcb_allocate while next_pid <= SemMaxPid.
SemMaxPid == 5
\* SpecSem: number of processes that call semaphore_down.
SemDowns == 3
\* SpecSem: number of processes that call semaphore_up.
SemUps == 2
\* SpecBar: the barrier's threshold n, and the number of processes using it.
BarSize == 3
\* SpecBar: number of barrier_wait calls each process makes.
BarRounds == 2
SleepMaxPid == 3
\* Milliseconds per timer tick.
MS_PER_TICK == 10
\* The sleep of SpecWake, in milliseconds.
WakeMs == 5 * MS_PER_TICK
\* The empty handle.
NULL == 0
\* The priority range and the priority of a new PCB (set in scheduler.h).
MIN_PRIORITY == 1
MAX_PRIORITY == 3
DEFAULT_PRIORITY == 2

\* Arguments of do_sleep: zero and a non-multiple of MS_PER_TICK.
SleepMs == {0, 15}

Slots == 1..MaxProcesses

\* Arguments of do_setpriority: below the range, inside it, above it.
PrioArgs == {MIN_PRIORITY - 1, DEFAULT_PRIORITY, MAX_PRIORITY + 1}

(***************************************************************************)
(* State.                                                                  *)
(***************************************************************************)
VARIABLES
    process_table,    \* slot -> PCB record
    next_pid,         \* next identifier handed out by pcb_allocate
    ready_queue,      \* sequence of slots, head first
    sleeping_queue,   \* sequence of slots, head first
    current_running,  \* slot or NULL
    time_elapsed,     \* [lo, hi]: the two words of the 64-bit tick counter
    disable_count,    \* interrupt-disable depth
    pending,          \* handles returned by pcb_allocate, not yet enqueued or freed
    booted,           \* the kernel has made its first dispatch
    last_handler,     \* entry path of the most recent step
    dc_trace,         \* values disable_count took during the most recent step
    null_deref,       \* the most recent step accessed memory through a NULL current_running
    retval,           \* value the most recent call returned (NULL for a void function)
    rr,               \* round-robin observer, see SpecRR
    twin,             \* the kernel state of a second execution, see SpecPrio
    sync,             \* the semaphore and the barrier: counts and waiter queues
    calls             \* observer of the semaphore and barrier calls made so far

vars == <<process_table, next_pid, ready_queue, sleeping_queue, current_running,
          time_elapsed, disable_count, pending, booted, last_handler, dc_trace,
          null_deref, retval, rr, twin, sync, calls>>

(***************************************************************************)
(* Helpers on sequences and on the tick counter.                           *)
(***************************************************************************)
Range(q) == {q[i] : i \in 1..Len(q)}

\* The 64-bit value the C code reads from the two words.
TimeOf(te) == te.hi * WordMod + te.lo

TimeValue == TimeOf(time_elapsed)

\* The kernel state the handlers start from.
K == [pt |-> process_table, np |-> next_pid, rq |-> ready_queue,
      sq |-> sleeping_queue, cur |-> current_running, te |-> time_elapsed,
      dc |-> disable_count, trace |-> <<>>, nullref |-> FALSE, ret |-> NULL]

(***************************************************************************)
(* Critical-section gate.                                                  *)
(***************************************************************************)
enter_critical(s) ==
    [s EXCEPT !.dc = @ + 1, !.trace = Append(@, s.dc + 1)]

leave_critical(s) ==
    [s EXCEPT !.dc = @ - 1, !.trace = Append(@, s.dc - 1)]

(***************************************************************************)
(* Intrusive FIFO queue.                                                   *)
(***************************************************************************)
queue_put(q, node) == Append(q, node)

\* The node queue_get returns: the head, or NULL when the queue is empty.
queue_get(q) == IF Len(q) = 0 THEN NULL ELSE Head(q)

\* The queue queue_get leaves behind.
queue_rest(q) == IF Len(q) = 0 THEN q ELSE Tail(q)

queue_size(q) == Len(q)

(***************************************************************************)
(* PCB allocator.                                                          *)
(***************************************************************************)
FreeSlots(pt) == {i \in Slots : pt[i].status = "FREE"}

FirstFree(pt) ==
    IF FreeSlots(pt) = {} THEN NULL
    ELSE CHOOSE i \in FreeSlots(pt) : \A j \in FreeSlots(pt) : i <= j

\* pcb_allocate that also hands out the slot of an EXITED PCB.
pcb_allocate_reuse_exited(s) ==
    LET s1   == enter_critical(s)
        free == {i \in Slots : s1.pt[i].status \in {"FREE", "EXITED"}}
        i    == IF free = {} THEN NULL
                ELSE CHOOSE i \in free : \A j \in free : i <= j
    IN  IF i # NULL
        THEN leave_critical(
               [s1 EXCEPT !.pt[i].pid = s1.np,
                          !.np = s1.np + 1,
                          !.pt[i].status = "READY",
                          !.pt[i].priority = DEFAULT_PRIORITY,
                          !.pt[i].nested_count = 0,
                          !.pt[i].wakeup_time = 0,
                          !.ret = i])
        ELSE leave_critical([s1 EXCEPT !.ret = NULL])

\* pcb_allocate that takes an identifier from the counter before it finds
\* the table full.
pcb_allocate_burn_pid(s) ==
    LET s1 == enter_critical(s)
        i  == FirstFree(s1.pt)
    IN  IF i # NULL
        THEN leave_critical(
               [s1 EXCEPT !.pt[i].pid = s1.np,
                          !.np = s1.np + 1,
                          !.pt[i].status = "READY",
                          !.pt[i].priority = DEFAULT_PRIORITY,
                          !.pt[i].nested_count = 0,
                          !.pt[i].wakeup_time = 0,
                          !.ret = i])
        ELSE leave_critical([s1 EXCEPT !.np = s1.np + 1, !.ret = NULL])

pcb_allocate(s) ==
    LET s1 == enter_critical(s)
        i  == FirstFree(s1.pt)
    IN  IF i # NULL
        THEN leave_critical(
               [s1 EXCEPT !.pt[i].pid = s1.np,
                          !.np = s1.np + 1,
                          !.pt[i].status = "READY",
                          !.pt[i].priority = DEFAULT_PRIORITY,
                          !.pt[i].nested_count = 0,
                          !.pt[i].wakeup_time = 0,
                          !.ret = i])
        ELSE leave_critical([s1 EXCEPT !.ret = NULL])

pcb_free(s, pcb) ==
    IF pcb = NULL THEN s
    ELSE leave_critical(
           [enter_critical(s) EXCEPT !.pt[pcb].status = "FREE",
                                     !.pt[pcb].pid = 0])

(***************************************************************************)
(* Scheduler core.                                                         *)
(***************************************************************************)
scheduler_add(s, pcb) ==
    IF pcb = NULL THEN s
    ELSE LET s1 == enter_critical(s)
         IN  leave_critical(
               [s1 EXCEPT !.pt[pcb].status = "READY",
                          !.rq = queue_put(s1.rq, pcb)])

\* Install next as current_running (the three assignments every dispatch makes).
Dispatch(s, next) ==
    [s EXCEPT !.cur = next,
              !.pt[next].status = "RUNNING",
              !.pt[next].nested_count = 0]

\* scheduler_entry that dispatches the ready PCB of highest priority.
scheduler_entry_by_priority(s) ==
    LET s1   == enter_critical(s)
        best == IF Len(s1.rq) = 0 THEN 0
                ELSE CHOOSE i \in 1..Len(s1.rq) :
                       \A j \in 1..Len(s1.rq) :
                         \/ s1.pt[s1.rq[j]].priority < s1.pt[s1.rq[i]].priority
                         \/ s1.pt[s1.rq[j]].priority = s1.pt[s1.rq[i]].priority /\ i <= j
        next == IF best = 0 THEN NULL ELSE s1.rq[best]
        s2   == [s1 EXCEPT !.rq = IF best = 0 THEN s1.rq
                                  ELSE SubSeq(s1.rq, 1, best - 1)
                                       \o SubSeq(s1.rq, best + 1, Len(s1.rq))]
    IN  IF next = NULL
        THEN leave_critical(s2)
        ELSE leave_critical(Dispatch(s2, next))

\* scheduler_entry that dispatches the PCB that entered the ready queue last.
scheduler_entry_last(s) ==
    LET s1   == enter_critical(s)
        next == IF Len(s1.rq) = 0 THEN NULL ELSE s1.rq[Len(s1.rq)]
        s2   == [s1 EXCEPT !.rq = IF Len(s1.rq) = 0 THEN s1.rq
                                  ELSE SubSeq(s1.rq, 1, Len(s1.rq) - 1)]
    IN  IF next = NULL
        THEN leave_critical(s2)
        ELSE leave_critical(Dispatch(s2, next))

scheduler_entry(s) ==
    LET s1   == enter_critical(s)
        next == queue_get(s1.rq)
        s2   == [s1 EXCEPT !.rq = queue_rest(s1.rq)]
    IN  IF next = NULL
        THEN leave_critical(s2)
        ELSE leave_critical(Dispatch(s2, next))

\* put_current_running that puts the process at the head of the ready queue.
put_current_running_front(s) ==
    LET s1 == enter_critical(s)
    IN  IF s1.cur # NULL /\ s1.pt[s1.cur].status = "RUNNING"
        THEN leave_critical(
               [s1 EXCEPT !.pt[s1.cur].status = "READY",
                          !.rq = <<s1.cur>> \o s1.rq])
        ELSE leave_critical(s1)

\* put_current_running that marks the process READY and forgets to enqueue it.
put_current_running_lost(s) ==
    LET s1 == enter_critical(s)
    IN  IF s1.cur # NULL /\ s1.pt[s1.cur].status = "RUNNING"
        THEN leave_critical([s1 EXCEPT !.pt[s1.cur].status = "READY"])
        ELSE leave_critical(s1)

put_current_running(s) ==
    LET s1 == enter_critical(s)
    IN  IF s1.cur # NULL /\ s1.pt[s1.cur].status = "RUNNING"
        THEN leave_critical(
               [s1 EXCEPT !.pt[s1.cur].status = "READY",
                          !.rq = queue_put(s1.rq, s1.cur)])
        ELSE leave_critical(s1)

(***************************************************************************)
(* Sleep subsystem.                                                        *)
(***************************************************************************)
\* do_sleep that, like scheduler_entry, leaves current_running as it is
\* when the ready queue is empty.
do_sleep_keep_current(s, milliseconds) ==
    LET s1 == enter_critical(s)
    IN  IF s1.cur = NULL
        THEN leave_critical(s1)
        ELSE LET me          == s1.cur
                 wakeup_time == TimeOf(s1.te) + (milliseconds \div MS_PER_TICK)
                                + (IF milliseconds % MS_PER_TICK # 0 THEN 1 ELSE 0)
                 s2   == [s1 EXCEPT !.pt[me].wakeup_time = wakeup_time,
                                    !.pt[me].status = "SLEEPING",
                                    !.sq = queue_put(s1.sq, me)]
                 next == queue_get(s2.rq)
                 s3   == [s2 EXCEPT !.rq = queue_rest(s2.rq)]
             IN  IF next # NULL
                 THEN leave_critical(Dispatch(s3, next))
                 ELSE leave_critical(s3)

do_sleep(s, milliseconds) ==
    LET s1 == enter_critical(s)
    IN  IF s1.cur = NULL
        THEN leave_critical(s1)
        ELSE LET me          == s1.cur
                 wakeup_time == TimeOf(s1.te) + (milliseconds \div MS_PER_TICK)
                                + (IF milliseconds % MS_PER_TICK # 0 THEN 1 ELSE 0)
                 s2   == [s1 EXCEPT !.pt[me].wakeup_time = wakeup_time,
                                    !.pt[me].status = "SLEEPING",
                                    !.sq = queue_put(s1.sq, me)]
                 next == queue_get(s2.rq)
                 s3   == [s2 EXCEPT !.rq = queue_rest(s2.rq)]
             IN  IF next # NULL
                 THEN leave_critical(Dispatch(s3, next))
                 ELSE leave_critical([s3 EXCEPT !.cur = NULL])

\* The loop of check_sleeping that scans the sleeping queue from its tail:
\* it takes the last PCB and puts one whose time has not come back at the
\* head.
RECURSIVE check_sleeping_loop_from_tail(_, _)
check_sleeping_loop_from_tail(s, n) ==
    IF n = 0 THEN s
    ELSE IF Len(s.sq) = 0 THEN s
         ELSE LET node == s.sq[Len(s.sq)]
                  s1   == [s EXCEPT !.sq = SubSeq(s.sq, 1, Len(s.sq) - 1)]
              IN  IF TimeOf(s1.te) >= s1.pt[node].wakeup_time
                  THEN check_sleeping_loop_from_tail(
                         [s1 EXCEPT !.pt[node].status = "READY",
                                    !.rq = queue_put(s1.rq, node)], n - 1)
                  ELSE check_sleeping_loop_from_tail(
                         [s1 EXCEPT !.sq = <<node>> \o s1.sq], n - 1)

\* The loop of check_sleeping that puts a sleeper whose time has not come
\* back at the head of the sleeping queue.
RECURSIVE check_sleeping_loop_front(_, _)
check_sleeping_loop_front(s, n) ==
    IF n = 0 THEN s
    ELSE LET node == queue_get(s.sq)
             s1   == [s EXCEPT !.sq = queue_rest(s.sq)]
         IN  IF node = NULL THEN s
             ELSE IF TimeOf(s1.te) >= s1.pt[node].wakeup_time
                  THEN check_sleeping_loop_front(
                         [s1 EXCEPT !.pt[node].status = "READY",
                                    !.rq = queue_put(s1.rq, node)], n - 1)
                  ELSE check_sleeping_loop_front(
                         [s1 EXCEPT !.sq = <<node>> \o s1.sq], n - 1)

\* The body of check_sleeping's for loop, for the n iterations that remain.
RECURSIVE check_sleeping_loop(_, _)
check_sleeping_loop(s, n) ==
    IF n = 0 THEN s
    ELSE LET node == queue_get(s.sq)
             s1   == [s EXCEPT !.sq = queue_rest(s.sq)]
         IN  IF node = NULL THEN s
             ELSE IF TimeOf(s1.te) >= s1.pt[node].wakeup_time
                  THEN check_sleeping_loop(
                         [s1 EXCEPT !.pt[node].status = "READY",
                                    !.rq = queue_put(s1.rq, node)], n - 1)
                  ELSE check_sleeping_loop(
                         [s1 EXCEPT !.sq = queue_put(s1.sq, node)], n - 1)

check_sleeping(s) ==
    LET s1    == enter_critical(s)
        count == queue_size(s1.sq)
    IN  leave_critical(check_sleeping_loop(s1, count))

(***************************************************************************)
(* Yield and exit.                                                         *)
(***************************************************************************)
\* do_yield that takes the next process before it puts the caller back.
do_yield_get_first(s) ==
    LET s1   == enter_critical(s)
        next == queue_get(s1.rq)
        s2   == [s1 EXCEPT !.rq = queue_rest(s1.rq)]
        s3   == IF s2.cur # NULL /\ s2.pt[s2.cur].status = "RUNNING"
                THEN [s2 EXCEPT !.pt[s2.cur].status = "READY",
                                !.rq = queue_put(s2.rq, s2.cur)]
                ELSE s2
    IN  IF next # NULL
        THEN leave_critical(Dispatch(s3, next))
        ELSE leave_critical(s3)

do_yield(s) ==
    LET s1   == enter_critical(s)
        s2   == IF s1.cur # NULL /\ s1.pt[s1.cur].status = "RUNNING"
                THEN [s1 EXCEPT !.pt[s1.cur].status = "READY",
                                !.rq = queue_put(s1.rq, s1.cur)]
                ELSE s1
        next == queue_get(s2.rq)
        s3   == [s2 EXCEPT !.rq = queue_rest(s2.rq)]
    IN  IF next # NULL
        THEN leave_critical(Dispatch(s3, next))
        ELSE leave_critical(s3)

\* do_exit that puts the exited process back into the ready queue.
do_exit_requeue(s) ==
    LET s1   == enter_critical(s)
        s2   == IF s1.cur # NULL
                THEN [s1 EXCEPT !.pt[s1.cur].status = "EXITED",
                                !.rq = queue_put(s1.rq, s1.cur)]
                ELSE s1
        next == queue_get(s2.rq)
        s3   == [s2 EXCEPT !.rq = queue_rest(s2.rq)]
    IN  IF next # NULL
        THEN leave_critical(Dispatch(s3, next))
        ELSE leave_critical([s3 EXCEPT !.cur = NULL])

do_exit(s) ==
    LET s1   == enter_critical(s)
        s2   == IF s1.cur # NULL
                THEN [s1 EXCEPT !.pt[s1.cur].status = "EXITED"]
                ELSE s1
        next == queue_get(s2.rq)
        s3   == [s2 EXCEPT !.rq = queue_rest(s2.rq)]
    IN  IF next # NULL
        THEN leave_critical(Dispatch(s3, next))
        ELSE leave_critical([s3 EXCEPT !.cur = NULL])

(***************************************************************************)
(* Priorities.                                                             *)
(***************************************************************************)
do_getpriority(s) ==
    LET s1       == enter_critical(s)
        priority == IF s1.cur = NULL THEN 0 ELSE s1.pt[s1.cur].priority
    IN  [leave_critical(s1) EXCEPT !.ret = priority]

\* do_setpriority that stores its argument as it comes.
do_setpriority_noclamp(s, priority) ==
    LET s1 == enter_critical(s)
    IN  IF s1.cur # NULL
        THEN leave_critical([s1 EXCEPT !.pt[s1.cur].priority = priority])
        ELSE leave_critical(s1)

do_setpriority(s, priority) ==
    LET s1 == enter_critical(s)
        p1 == IF priority < MIN_PRIORITY THEN MIN_PRIORITY ELSE priority
        p2 == IF p1 > MAX_PRIORITY THEN MAX_PRIORITY ELSE p1
    IN  IF s1.cur # NULL
        THEN leave_critical([s1 EXCEPT !.pt[s1.cur].priority = p2])
        ELSE leave_critical(s1)

(***************************************************************************)
(* Synchronization primitives.  A primitive takes the kernel state s and   *)
(* the synchronization objects y and gives both back: [k |-> s', y |-> y'].*)
(***************************************************************************)
\* The caller becomes WAITING on waiter queue w and the next ready process
\* is dispatched; current_running is left empty if there is none.
block(s, w) ==
    LET me   == s.cur
        s1   == [s EXCEPT !.pt[me].status = "WAITING"]
        next == queue_get(s1.rq)
        s2   == [s1 EXCEPT !.rq = queue_rest(s1.rq)]
    IN  [k |-> IF next # NULL THEN Dispatch(s2, next) ELSE [s2 EXCEPT !.cur = NULL],
         w |-> queue_put(w, me)]

\* The head of waiter queue w (not empty) becomes READY in the ready queue.
unblock(s, w) ==
    LET head == queue_get(w)
    IN  [k |-> [s EXCEPT !.pt[head].status = "READY",
                         !.rq = queue_put(s.rq, head)],
         w |-> queue_rest(w)]

semaphore_down(s, y) ==
    LET s1 == enter_critical(s)
    IN  IF y.sem_value > 0
        THEN [k |-> leave_critical(s1), y |-> [y EXCEPT !.sem_value = @ - 1]]
        ELSE LET b == block(s1, y.sem_waiters)
             IN  [k |-> leave_critical(b.k), y |-> [y EXCEPT !.sem_waiters = b.w]]

\* semaphore_up that also increments the value when it hands off to a waiter.
semaphore_up_overcount(s, y) ==
    LET s1 == enter_critical(s)
    IN  IF queue_size(y.sem_waiters) > 0
        THEN LET u == unblock(s1, y.sem_waiters)
             IN  [k |-> leave_critical(u.k),
                  y |-> [y EXCEPT !.sem_waiters = u.w, !.sem_value = @ + 1]]
        ELSE [k |-> leave_critical(s1), y |-> [y EXCEPT !.sem_value = @ + 1]]

semaphore_up(s, y) ==
    LET s1 == enter_critical(s)
    IN  IF queue_size(y.sem_waiters) > 0
        THEN LET u == unblock(s1, y.sem_waiters)
             IN  [k |-> leave_critical(u.k), y |-> [y EXCEPT !.sem_waiters = u.w]]
        ELSE [k |-> leave_critical(s1), y |-> [y EXCEPT !.sem_value = @ + 1]]

\* Every waiter of queue w becomes READY in the ready queue, head first.
RECURSIVE unblock_all(_, _)
unblock_all(s, w) ==
    IF queue_size(w) = 0 THEN [k |-> s, w |-> w]
    ELSE LET u == unblock(s, w) IN unblock_all(u.k, u.w)

\* barrier_wait that releases the waiters and forgets to reset the count.
barrier_wait_noreset(s, y) ==
    LET s1      == enter_critical(s)
        arrived == y.bar_arrived + 1
    IN  IF arrived < y.bar_n
        THEN LET b == block(s1, y.bar_waiters)
             IN  [k |-> leave_critical(b.k),
                  y |-> [y EXCEPT !.bar_arrived = arrived, !.bar_waiters = b.w]]
        ELSE LET u == unblock_all(s1, y.bar_waiters)
             IN  [k |-> leave_critical(u.k),
                  y |-> [y EXCEPT !.bar_arrived = arrived, !.bar_waiters = u.w]]

barrier_wait(s, y) ==
    LET s1      == enter_critical(s)
        arrived == y.bar_arrived + 1
    IN  IF arrived < y.bar_n
        THEN LET b == block(s1, y.bar_waiters)
             IN  [k |-> leave_critical(b.k),
                  y |-> [y EXCEPT !.bar_arrived = arrived, !.bar_waiters = b.w]]
        ELSE LET u == unblock_all(s1, y.bar_waiters)
             IN  [k |-> leave_critical(u.k),
                  y |-> [y EXCEPT !.bar_arrived = 0, !.bar_waiters = u.w]]

(***************************************************************************)
(* Assembly entry points.                                                  *)
(***************************************************************************)
\* movl current_running, %eax; movl %esp, (%eax): the stack pointer of the
\* frame the entry path `frame` pushed goes into the first word of the PCB.
\* With current_running NULL the store goes to address 0.
SAVE_STACK(s, frame) ==
    IF s.cur = NULL
    THEN [s EXCEPT !.nullref = TRUE]
    ELSE [s EXCEPT !.pt[s.cur].saved_sp = frame]

\* movl current_running, %eax; movl (%eax), %esp.  With current_running NULL
\* the load comes from address 0.
RESTORE_STACK(s) ==
    IF s.cur = NULL THEN [s EXCEPT !.nullref = TRUE] ELSE s

\* incl time_elapsed; jnc 1f; incl time_elapsed+4.  incl leaves the carry
\* flag as the interrupted code had it (cf), and jnc tests that flag.
IncTimeElapsed(s, cf) ==
    [s EXCEPT !.te = [lo |-> (s.te.lo + 1) % WordMod,
                      hi |-> IF cf THEN s.te.hi + 1 ELSE s.te.hi]]

\* The word TEST_NESTED_COUNT compares with zero.  With current_running NULL
\* it is whatever lies at NESTED_COUNT_OFFSET from address 0 (garbage).
NestedCountRead(s, garbage) ==
    IF s.cur = NULL THEN garbage ELSE s.pt[s.cur].nested_count

\* The preemptable branch that puts the running process back before it
\* looks for sleepers to wake.
irq0_nested_is_zero_put_first(s) ==
    LET s1 == SAVE_STACK(s, "irq0")
        s2 == put_current_running(s1)
        s3 == check_sleeping(s2)
        s4 == scheduler_entry(s3)
        s5 == RESTORE_STACK(s4)
    IN  leave_critical(s5)

irq0_nested_is_zero(s) ==
    LET s1 == SAVE_STACK(s, "irq0")
        s2 == check_sleeping(s1)
        s3 == put_current_running(s2)
        s4 == scheduler_entry(s3)
        s5 == RESTORE_STACK(s4)
    IN  leave_critical(s5)

\* The non-preemptable branch made to save the stack and rotate like the
\* preemptable one.
irq0_nested_not_zero_preempt(s) ==
    irq0_nested_is_zero(s)

irq0_nested_not_zero(s) ==
    leave_critical(check_sleeping(s))

\* irq0_entry without the incl disable_count of its prologue.
irq0_entry_noincl(s, cf, garbage) ==
    LET s2 == IncTimeElapsed(s, cf)
        s3 == IF s2.cur = NULL THEN [s2 EXCEPT !.nullref = TRUE] ELSE s2
    IN  IF NestedCountRead(s3, garbage) = 0
        THEN irq0_nested_is_zero(s3)
        ELSE irq0_nested_not_zero(s3)

irq0_entry(s, cf, garbage) ==
    LET s1 == enter_critical(s)
        s2 == IncTimeElapsed(s1, cf)
        s3 == IF s2.cur = NULL THEN [s2 EXCEPT !.nullref = TRUE] ELSE s2
    IN  IF NestedCountRead(s3, garbage) = 0
        THEN irq0_nested_is_zero(s3)
        ELSE irq0_nested_not_zero(s3)

\* The handler sysentry reaches for a system call.
system_call_helper(s, call, arg) ==
    CASE call = "yield" -> do_yield(s)
      [] call = "sleep" -> do_sleep(s, arg)
      [] call = "exit"  -> do_exit(s)
      [] call = "setpriority" -> do_setpriority(s, arg)

sysentry(s, call, arg) ==
    LET s1 == enter_critical(s)
        s2 == SAVE_STACK(s1, "sysentry")
        s3 == system_call_helper(s2, call, arg)
        s4 == RESTORE_STACK(s3)
    IN  leave_critical(s4)

\* The handler sysentry reaches for a call on a synchronization object.
sync_call_helper(s, y, call) ==
    CASE call = "semaphore_down" -> semaphore_down(s, y)
      [] call = "semaphore_up"   -> semaphore_up(s, y)
      [] call = "barrier_wait"   -> barrier_wait(s, y)

\* sysentry around a call on a synchronization object.
sysentry_sync(s, y, call) ==
    LET s1 == enter_critical(s)
        s2 == SAVE_STACK(s1, "sysentry")
        r  == sync_call_helper(s2, y, call)
        s4 == RESTORE_STACK(r.k)
    IN  [k |-> leave_critical(s4), y |-> r.y]

(***************************************************************************)
(* Initial state: scheduler_init and the .data section of entry.S.         *)
(***************************************************************************)
\* The observer before any tick: see SpecRR.
RRInit == [since |-> [i \in Slots |-> 0], ticks |-> 0, runs |-> [i \in Slots |-> 0]]

InitPcb == [saved_sp |-> "none", pid |-> 0, status |-> "FREE",
            priority |-> DEFAULT_PRIORITY, nested_count |-> 0, wakeup_time |-> 0]

\* The kernel state of the second execution before its first operation.
TwinInit == [pt |-> [i \in Slots |-> InitPcb], np |-> 1, rq |-> <<>>, sq |-> <<>>,
             cur |-> NULL, te |-> [lo |-> 0, hi |-> 0], dc |-> 0]

\* The semaphore after semaphore_init(sem, 0) and the barrier after
\* barrier_init(bar, BarSize).
SyncInit == [sem_value |-> 0, sem_waiters |-> <<>>,
             bar_n |-> BarSize, bar_arrived |-> 0, bar_waiters |-> <<>>]

\* No process has called a synchronization primitive.
CallsInit == [down |-> [p \in Slots |-> "none"], ups |-> {},
              entered |-> [p \in Slots |-> 0], returned |-> [p \in Slots |-> 0]]

Init ==
    /\ process_table = [i \in Slots |-> InitPcb]
    /\ next_pid = 1
    /\ ready_queue = <<>>
    /\ sleeping_queue = <<>>
    /\ current_running = NULL
    /\ time_elapsed = [lo |-> 0, hi |-> 0]
    /\ disable_count = 0
    /\ pending = {}
    /\ booted = FALSE
    /\ last_handler = "boot"
    /\ dc_trace = <<>>
    /\ null_deref = FALSE
    /\ retval = NULL
    /\ rr = RRInit
    /\ twin = TwinInit
    /\ sync = SyncInit
    /\ calls = CallsInit

\* Store the kernel state a handler produced.
Commit(s, handler) ==
    /\ process_table' = s.pt
    /\ next_pid' = s.np
    /\ ready_queue' = s.rq
    /\ sleeping_queue' = s.sq
    /\ current_running' = s.cur
    /\ time_elapsed' = s.te
    /\ disable_count' = s.dc
    /\ last_handler' = handler
    /\ dc_trace' = s.trace
    /\ null_deref' = s.nullref
    /\ retval' = s.ret

(***************************************************************************)
(* Actions.                                                                *)
(***************************************************************************)
\* Kernel code calls pcb_allocate, while next_pid <= maxpid.
PcbAllocateUpTo(maxpid) ==
    /\ next_pid <= maxpid
    /\ LET r == pcb_allocate(K)
       IN  /\ Commit(r, "call")
           /\ pending' = IF r.ret = NULL THEN pending ELSE pending \cup {r.ret}
    /\ UNCHANGED booted

PcbAllocate == PcbAllocateUpTo(MaxPid)

SchedulerAdd(pcb) ==
    /\ pcb \in pending
    /\ Commit(scheduler_add(K, pcb), "call")
    /\ pending' = pending \ {pcb}
    /\ UNCHANGED booted

PcbFree(pcb) ==
    /\ pcb \in pending \/ process_table[pcb].status = "EXITED"
    /\ Commit(pcb_free(K, pcb), "call")
    /\ pending' = pending \ {pcb}
    /\ UNCHANGED booted

\* The kernel's first dispatch, before the timer is enabled.
KernelStart ==
    /\ ~booted
    /\ Commit(scheduler_entry(K), "call")
    /\ booted' = TRUE
    /\ UNCHANGED pending

\* A timer interrupt: taken only with interrupts enabled.
Tick(cf, garbage) ==
    /\ booted
    /\ disable_count = 0
    /\ TimeValue < MaxTime
    /\ Commit(irq0_entry(K, cf, garbage), "irq0")
    /\ UNCHANGED <<pending, booted>>

\* The running process makes a system call.
Syscall(call, arg) ==
    /\ booted
    /\ disable_count = 0
    /\ current_running # NULL
    /\ Commit(sysentry(K, call, arg), "sysentry")
    /\ UNCHANGED <<pending, booted>>

\* The running process enters non-preemptable kernel code.
NestEnter ==
    /\ booted
    /\ current_running # NULL
    /\ process_table[current_running].nested_count < MaxNested
    /\ Commit([K EXCEPT !.pt[current_running].nested_count = @ + 1], "call")
    /\ UNCHANGED <<pending, booted>>

\* The running process leaves non-preemptable kernel code.
NestLeave ==
    /\ booted
    /\ current_running # NULL
    /\ process_table[current_running].nested_count > 0
    /\ Commit([K EXCEPT !.pt[current_running].nested_count = @ - 1], "call")
    /\ UNCHANGED <<pending, booted>>

Calls == {<<"yield", 0>>, <<"exit", 0>>} \cup {<<"sleep", ms>> : ms \in SleepMs}

Step ==
    \/ PcbAllocate
    \/ \E pcb \in Slots : SchedulerAdd(pcb)
    \/ \E pcb \in Slots : PcbFree(pcb)
    \/ KernelStart
    \/ \E cf \in BOOLEAN, garbage \in {0, 1} : Tick(cf, garbage)
    \/ \E c \in Calls : Syscall(c[1], c[2])
    \/ NestEnter
    \/ NestLeave

Next == Step /\ UNCHANGED <<rr, twin, sync, calls>>

Spec == Init /\ [][Next]_vars

(***************************************************************************)
(* SpecRR: processes that only compute and yield.  The observer rr follows *)
(* a steady period: consecutive steps that leave the set of runnable       *)
(* processes unchanged and in which every runnable process has nesting     *)
(* depth zero.  rr.since[p] is the number of ticks of the period since p   *)
(* was last current_running, rr.ticks the number of ticks of the period,   *)
(* rr.runs[p] the number of times p was current_running at the start of    *)
(* the period or installed during it.  Any other step restarts the period. *)
(***************************************************************************)
Min(a, b) == IF a < b THEN a ELSE b

Runnable(cur, rq) == (IF cur = NULL THEN {} ELSE {cur}) \cup Range(rq)

Calm(pt, cur, rq) ==
    /\ cur # NULL
    /\ \A p \in Runnable(cur, rq) : pt[p].nested_count = 0

RRStart(cur) ==
    [since |-> [p \in Slots |-> 0],
     ticks |-> 0,
     runs  |-> [p \in Slots |-> IF p = cur THEN 1 ELSE 0]]

\* The observer after a step; tick says whether the step is a timer tick.
RRObserve(tick) ==
    IF /\ Runnable(current_running', ready_queue') = Runnable(current_running, ready_queue)
       /\ Calm(process_table, current_running, ready_queue)
       /\ Calm(process_table', current_running', ready_queue')
    THEN rr' = [since |-> [p \in Slots |->
                            IF p = current_running' THEN 0
                            ELSE IF tick THEN Min(rr.since[p] + 1, MaxProcesses + 1)
                            ELSE rr.since[p]],
                ticks |-> IF tick THEN Min(rr.ticks + 1, RRTicks) ELSE rr.ticks,
                runs  |-> [p \in Slots |->
                            IF p = current_running' /\ (tick \/ p # current_running)
                            THEN Min(rr.runs[p] + 1, RRTicks)
                            ELSE rr.runs[p]]]
    ELSE rr' = RRStart(current_running')

TickRR(cf, garbage) ==
    /\ booted
    /\ disable_count = 0
    /\ TimeValue < RRMaxTime
    /\ Commit(irq0_entry(K, cf, garbage), "irq0")
    /\ UNCHANGED <<pending, booted>>

StepRR ==
    \/ PcbAllocate /\ RRObserve(FALSE)
    \/ \E pcb \in Slots : SchedulerAdd(pcb) /\ RRObserve(FALSE)
    \/ KernelStart /\ RRObserve(FALSE)
    \/ \E cf \in BOOLEAN, garbage \in {0, 1} : TickRR(cf, garbage) /\ RRObserve(TRUE)
    \/ Syscall("yield", 0) /\ RRObserve(FALSE)
    \/ NestEnter /\ RRObserve(FALSE)
    \/ NestLeave /\ RRObserve(FALSE)

SpecRR == Init /\ [][StepRR /\ UNCHANGED <<twin, sync, calls>>]_vars

(***************************************************************************)
(* SpecWake: the kernel creates processes A (slot 1) and B (slot 2) and    *)
(* dispatches A; A calls do_sleep(WakeMs) at tick 0; B only computes, with *)
(* nesting depth zero.  rr.ticks counts the timer interrupts taken since   *)
(* the sleep call and rr.runs[p] the times p was installed as              *)
(* current_running since then.                                             *)
(***************************************************************************)
WakeObserve(tick) ==
    rr' = [rr EXCEPT
             !.ticks = IF tick THEN @ + 1 ELSE @,
             !.runs = [p \in Slots |->
                         IF p = current_running' /\ p # current_running
                         THEN Min(rr.runs[p] + 1, WakeTicks)
                         ELSE rr.runs[p]]]

\* A has made its sleep call.
WakeSlept == process_table[1].wakeup_time # 0

StepWake ==
    \/ next_pid <= 2 /\ PcbAllocate /\ UNCHANGED rr
    \/ \E pcb \in Slots : SchedulerAdd(pcb) /\ UNCHANGED rr
    \/ Len(ready_queue) = 2 /\ KernelStart /\ UNCHANGED rr
    \/ /\ current_running = 1
       /\ ~WakeSlept
       /\ Syscall("sleep", WakeMs)
       /\ UNCHANGED rr
    \/ /\ WakeSlept
       /\ rr.ticks < WakeTicks
       /\ \E cf \in BOOLEAN :
            /\ booted
            /\ disable_count = 0
            /\ Commit(irq0_entry(K, cf, 0), "irq0")
            /\ UNCHANGED <<pending, booted>>
       /\ WakeObserve(TRUE)

SpecWake == Init /\ [][StepWake /\ UNCHANGED <<twin, sync, calls>>]_vars

(***************************************************************************)
(* SpecAlloc: the allocator against a table that fills up.  Processes are  *)
(* created, started, yield and exit, exited PCBs are freed, and            *)
(* pcb_allocate is called whether or not a slot is FREE.                   *)
(***************************************************************************)
PcbAllocateAny ==
    /\ next_pid <= AllocMaxPid
    /\ LET r == pcb_allocate(K)
       IN  /\ Commit(r, "pcb_allocate")
           /\ pending' = IF r.ret = NULL THEN pending ELSE pending \cup {r.ret}
    /\ UNCHANGED booted

StepAlloc ==
    \/ PcbAllocateAny
    \/ \E pcb \in Slots : SchedulerAdd(pcb)
    \/ \E pcb \in Slots : PcbFree(pcb)
    \/ KernelStart
    \/ Syscall("yield", 0)
    \/ Syscall("exit", 0)

SpecAlloc == Init /\ [][StepAlloc /\ UNCHANGED <<rr, twin, sync, calls>>]_vars

(***************************************************************************)
(* SpecPrio: two executions of the kernel side by side.  The variables     *)
(* hold the first and twin the second.  Every step performs the same       *)
(* operation with the same inputs in both, except that a do_setpriority    *)
(* call passes priority a in the first and priority b in the second.       *)
(***************************************************************************)
TwinK == [pt |-> twin.pt, np |-> twin.np, rq |-> twin.rq, sq |-> twin.sq,
          cur |-> twin.cur, te |-> twin.te, dc |-> twin.dc,
          trace |-> <<>>, nullref |-> FALSE, ret |-> NULL]

TwinCommit(s) ==
    twin' = [pt |-> s.pt, np |-> s.np, rq |-> s.rq, sq |-> s.sq,
             cur |-> s.cur, te |-> s.te, dc |-> s.dc]

\* Kernel code calls do_getpriority.
DoGetPriority ==
    /\ disable_count = 0
    /\ Commit(do_getpriority(K), "do_getpriority")
    /\ UNCHANGED <<pending, booted>>

\* Kernel code calls do_setpriority.
DoSetPriority(priority) ==
    /\ disable_count = 0
    /\ Commit(do_setpriority(K, priority), "do_setpriority")
    /\ UNCHANGED <<pending, booted>>

\* Kernel code calls do_setpriority and then do_getpriority.
DoSetGetPriority(priority) ==
    /\ disable_count = 0
    /\ Commit(do_getpriority(do_setpriority(K, priority)), "do_getpriority")
    /\ UNCHANGED <<pending, booted>>

StepPrio ==
    \/ /\ next_pid <= PrioMaxPid
       /\ PcbAllocate
       /\ TwinCommit(pcb_allocate(TwinK))
    \/ \E pcb \in Slots : SchedulerAdd(pcb) /\ TwinCommit(scheduler_add(TwinK, pcb))
    \/ KernelStart /\ TwinCommit(scheduler_entry(TwinK))
    \/ \E cf \in BOOLEAN, garbage \in {0, 1} :
         Tick(cf, garbage) /\ TwinCommit(irq0_entry(TwinK, cf, garbage))
    \/ \E c \in Calls : Syscall(c[1], c[2]) /\ TwinCommit(sysentry(TwinK, c[1], c[2]))
    \/ \E a, b \in PrioArgs :
         Syscall("setpriority", a) /\ TwinCommit(sysentry(TwinK, "setpriority", b))
    \/ \E a, b \in PrioArgs :
         DoSetPriority(a) /\ TwinCommit(do_setpriority(TwinK, b))

SpecPrio == Init /\ [][StepPrio /\ UNCHANGED <<rr, sync, calls>>]_vars

(***************************************************************************)
(* SpecClamp: one execution in which processes and kernel code set and     *)
(* read priorities, with and without a current process.                    *)
(***************************************************************************)
StepClamp ==
    \/ next_pid <= PrioMaxPid /\ PcbAllocate
    \/ \E pcb \in Slots : SchedulerAdd(pcb)
    \/ KernelStart
    \/ \E cf \in BOOLEAN, garbage \in {0, 1} : Tick(cf, garbage)
    \/ \E c \in Calls : Syscall(c[1], c[2])
    \/ \E p \in PrioArgs : Syscall("setpriority", p)
    \/ \E p \in PrioArgs : DoSetPriority(p)
    \/ DoGetPriority
    \/ \E p \in PrioArgs : DoSetGetPriority(p)

SpecClamp == Init /\ [][StepClamp /\ UNCHANGED <<rr, twin, sync, calls>>]_vars

(***************************************************************************)
(* SpecSem: the kernel creates SemMaxPid processes, enqueuing each before   *)
(* it allocates the next, and starts them; they share one semaphore        *)
(* initialised to 0.  SemDowns of them call semaphore_down once and SemUps of them call   *)
(* semaphore_up once, between yields and timer ticks.  calls.down[p] says  *)
(* how far p's down call has come: "none" (not called), "waiting" (the     *)
(* caller is blocked), "woken" (handed the permit, not yet dispatched) or  *)
(* "returned" (the call has returned into p); calls.ups holds the          *)
(* processes that called up.                                               *)
(***************************************************************************)
\* The running process makes a system call on a synchronization object.
SyscallSync(call) ==
    /\ booted
    /\ disable_count = 0
    /\ current_running # NULL
    /\ LET r == sysentry_sync(K, sync, call)
       IN  Commit(r.k, "sysentry") /\ sync' = r.y
    /\ UNCHANGED <<pending, booted>>

Downers == {p \in Slots : calls.down[p] # "none"}

\* The observer after a step in which process downer (or nobody, NULL)
\* called down and process upper (or nobody) called up.
SemObserve(downer, upper) ==
    calls' = [calls EXCEPT
      !.down = [p \in Slots |->
                 IF p = downer
                 THEN IF process_table'[p].status = "WAITING"
                      THEN "waiting" ELSE "returned"
                 ELSE IF calls.down[p] = "waiting" /\ process_table'[p].status # "WAITING"
                 THEN IF current_running' = p THEN "returned" ELSE "woken"
                 ELSE IF calls.down[p] = "woken" /\ current_running' = p
                 THEN "returned"
                 ELSE calls.down[p]],
      !.ups = IF upper = NULL THEN @ ELSE @ \cup {upper}]

SemDown ==
    /\ current_running # NULL
    /\ calls.down[current_running] = "none"
    /\ Cardinality(Downers) < SemDowns
    /\ SyscallSync("semaphore_down")
    /\ SemObserve(current_running, NULL)

SemUp ==
    /\ current_running # NULL
    /\ current_running \notin calls.ups
    /\ Cardinality(calls.ups) < SemUps
    /\ SyscallSync("semaphore_up")
    /\ SemObserve(NULL, current_running)

StepSem ==
    \/ pending = {} /\ PcbAllocateUpTo(SemMaxPid) /\ UNCHANGED sync /\ SemObserve(NULL, NULL)
    \/ \E pcb \in Slots : SchedulerAdd(pcb) /\ UNCHANGED sync /\ SemObserve(NULL, NULL)
    \/ /\ Len(ready_queue) = SemMaxPid
       /\ KernelStart /\ UNCHANGED sync /\ SemObserve(NULL, NULL)
    \/ \E cf \in BOOLEAN, garbage \in {0, 1} :
         Tick(cf, garbage) /\ UNCHANGED sync /\ SemObserve(NULL, NULL)
    \/ Syscall("yield", 0) /\ UNCHANGED sync /\ SemObserve(NULL, NULL)
    \/ SemDown
    \/ SemUp

SpecSem == Init /\ [][StepSem /\ UNCHANGED <<rr, twin>>]_vars

(***************************************************************************)
(* SpecBar: the kernel creates BarSize processes, enqueuing each before it *)
(* allocates the next, and starts them; they share one barrier of          *)
(* threshold BarSize and each calls barrier_wait BarRounds times, between  *)
(* yields and timer ticks.  calls.entered[p] counts the barrier_wait calls *)
(* p has made and calls.returned[p] those that have returned into p: a     *)
(* call has returned once p is current_running again.  The timer keeps     *)
(* ticking, so the running process is rotated again and again (where the   *)
(* bound on the tick counter stops the timer, a yield stands in).          *)
(***************************************************************************)
\* The observer after a step that leaves process cur running; caller is the
\* process that called barrier_wait in the step, or NULL.
BarObserved(caller, cur) ==
    [calls EXCEPT
      !.entered = [p \in Slots |-> IF p = caller THEN @[p] + 1 ELSE @[p]],
      !.returned = [p \in Slots |->
                     IF p = cur
                     THEN IF p = caller THEN calls.entered[p] + 1 ELSE calls.entered[p]
                     ELSE @[p]]]

BarObserve(caller) == calls' = BarObserved(caller, current_running')

\* The handlers that rotate the running process from the present state: a
\* timer interrupt (as in Tick) or a yield call (as in Syscall).
Rotations ==
    (IF TimeValue < MaxTime
     THEN {[k |-> irq0_entry(K, cf, garbage), handler |-> "irq0"] :
             cf \in BOOLEAN, garbage \in {0, 1}}
     ELSE {})
    \cup (IF current_running # NULL
          THEN {[k |-> sysentry(K, "yield", 0), handler |-> "sysentry"]}
          ELSE {})

BarWait ==
    /\ current_running # NULL
    /\ calls.entered[current_running] < BarRounds
    /\ SyscallSync("barrier_wait")
    /\ BarObserve(current_running)

\* A timer tick or a yield.
BarRotate ==
    /\ booted
    /\ disable_count = 0
    /\ \E r \in Rotations :
         /\ Commit(r.k, r.handler)
         /\ calls' = BarObserved(NULL, r.k.cur)
    /\ UNCHANGED <<pending, booted, sync, rr, twin>>

StepBar ==
    \/ /\ pending = {}
       /\ PcbAllocateUpTo(BarSize) /\ UNCHANGED <<sync, rr, twin>> /\ BarObserve(NULL)
    \/ \E pcb \in Slots :
         SchedulerAdd(pcb) /\ UNCHANGED <<sync, rr, twin>> /\ BarObserve(NULL)
    \/ /\ Len(ready_queue) = BarSize
       /\ KernelStart /\ UNCHANGED <<sync, rr, twin>> /\ BarObserve(NULL)
    \/ BarRotate
    \/ BarWait /\ UNCHANGED <<rr, twin>>

SpecBar == Init /\ [][StepBar]_vars /\ []<><<BarRotate>>_vars

(***************************************************************************)
(* Properties.                                                             *)
(***************************************************************************)
\* Number of times pcb occurs in queue q.
Occ(q, pcb) == Cardinality({i \in 1..Len(q) : q[i] = pcb})

QueueCount(pcb) == Occ(ready_queue, pcb) + Occ(sleeping_queue, pcb)

StatusOf(pcb) == process_table[pcb].status

\* priority brought into [MIN_PRIORITY, MAX_PRIORITY].
Clamp(priority) ==
    IF priority < MIN_PRIORITY THEN MIN_PRIORITY
    ELSE IF priority > MAX_PRIORITY THEN MAX_PRIORITY
    ELSE priority

\* ceil(ms / d), computed without the remainder test do_sleep uses.
CeilDiv(ms, d) == (ms + d - 1) \div d

\* C1 as stated: with the interrupt-disable depth zero every PCB is in at
\* most one queue and its membership matches its status: READY in the ready
\* queue, SLEEPING in the sleeping queue, RUNNING in no queue and equal to
\* current_running, FREE in no queue with pid 0.
C1_Original ==
    disable_count = 0 =>
      \A p \in Slots :
        /\ QueueCount(p) <= 1
        /\ StatusOf(p) = "READY" => Occ(ready_queue, p) = 1
        /\ StatusOf(p) = "SLEEPING" => Occ(sleeping_queue, p) = 1
        /\ StatusOf(p) = "RUNNING" => QueueCount(p) = 0 /\ current_running = p
        /\ StatusOf(p) = "FREE" => QueueCount(p) = 0 /\ process_table[p].pid = 0

\* C1 amended: as C1, except that a PCB returned by pcb_allocate and not yet
\* handed to scheduler_add (or pcb_free) is READY and in no queue; every
\* other READY PCB is in the ready queue.
C1_QueueMembership ==
    disable_count = 0 =>
      \A p \in Slots :
        /\ QueueCount(p) <= 1
        /\ StatusOf(p) = "READY" =>
             \/ Occ(ready_queue, p) = 1 /\ p \notin pending
             \/ QueueCount(p) = 0 /\ p \in pending
        /\ StatusOf(p) = "SLEEPING" => Occ(sleeping_queue, p) = 1
        /\ StatusOf(p) = "RUNNING" => QueueCount(p) = 0 /\ current_running = p
        /\ StatusOf(p) = "FREE" => QueueCount(p) = 0 /\ process_table[p].pid = 0

\* C1 witness: after a timer tick one process runs, one waits in the ready
\* queue and one sleeps in the sleeping queue.
C1_Witness ==
    /\ last_handler = "irq0"
    /\ disable_count = 0
    /\ \E p, q, r \in Slots :
         /\ StatusOf(p) = "RUNNING" /\ current_running = p
         /\ StatusOf(q) = "READY" /\ Occ(ready_queue, q) = 1
         /\ StatusOf(r) = "SLEEPING" /\ Occ(sleeping_queue, r) = 1

\* C2 as stated: do_sleep(ms) at tick T records wakeup = T + ceil(ms /
\* MS_PER_TICK), and no process becomes RUNNING while the tick counter is
\* below the wakeup it recorded.
C2_SleepCorrectness ==
    [][/\ \A ms \in SleepMs :
            Syscall("sleep", ms) =>
              process_table'[current_running].wakeup_time
                = TimeValue + CeilDiv(ms, MS_PER_TICK)
       /\ \A p \in Slots :
            StatusOf(p) # "RUNNING" /\ process_table'[p].status = "RUNNING" =>
              TimeOf(time_elapsed') >= process_table'[p].wakeup_time]_vars

\* C3 as stated: a timer interrupt adds exactly one to the 64-bit counter:
\* the low word is incremented, the high word is incremented exactly when the
\* low word wrapped to 0, and the counter never decreases.
C3_TickIncrement ==
    [][/\ last_handler' = "irq0" =>
            /\ time_elapsed'.lo = (time_elapsed.lo + 1) % WordMod
            /\ time_elapsed'.hi = time_elapsed.hi + (IF time_elapsed'.lo = 0 THEN 1 ELSE 0)
            /\ TimeOf(time_elapsed') = TimeValue + 1
       /\ TimeOf(time_elapsed') >= TimeValue]_vars

\* C4: round-robin fairness.  In a steady period with k runnable processes,
\* all of nesting depth zero, every runnable process has been
\* current_running within the last k timer ticks (fewer than k ticks have
\* passed since it last was); with two such processes each has been
\* current_running at least floor(n/2) times after n ticks of the period,
\* which is 50 >= 40 times after 100 ticks.
C4_RoundRobin ==
    Calm(process_table, current_running, ready_queue) =>
      LET run == Runnable(current_running, ready_queue)
          k   == Cardinality(run)
      IN  /\ \A p \in run : rr.since[p] < k
          /\ k = 2 => \A p \in run : 2 * rr.runs[p] + 1 >= rr.ticks

\* C4 witness: three runnable processes have rotated through a steady period
\* of at least three ticks, and the one now running waited two ticks.
C4_Witness ==
    /\ Calm(process_table, current_running, ready_queue)
    /\ Cardinality(Runnable(current_running, ready_queue)) = 3
    /\ rr.ticks >= 4
    /\ \E p \in Slots : rr.since[p] = 2

\* C4 witness for two processes: a steady period of RRTicks ticks.
C4_WitnessTwo ==
    /\ Calm(process_table, current_running, ready_queue)
    /\ Cardinality(Runnable(current_running, ready_queue)) = 2
    /\ rr.ticks = RRTicks - 1
    /\ \E p \in Slots : 2 * rr.runs[p] <= rr.ticks

\* The sleepers of queue sq whose wakeup tick the counter te has reached.
Expired(pt, sq, te) == {p \in Range(sq) : TimeOf(te) >= pt[p].wakeup_time}

\* C5 as stated: a timer tick taken while current_running is empty and every
\* live process sleeps completes without any access through the empty
\* current_running slot; while no sleeper's wakeup tick is reached the system
\* stays idle and the sleeping queue is untouched; on the first tick whose
\* counter reaches a wakeup tick a process with a reached wakeup tick becomes
\* RUNNING.
C5_IdleTick ==
    [][(/\ last_handler' = "irq0"
        /\ current_running = NULL
        /\ ready_queue = <<>>
        /\ sleeping_queue # <<>>)
       => /\ null_deref' = FALSE
          /\ IF Expired(process_table, sleeping_queue, time_elapsed') = {}
             THEN /\ current_running' = NULL
                  /\ sleeping_queue' = sleeping_queue
                  /\ process_table' = process_table
             ELSE /\ current_running'
                       \in Expired(process_table, sleeping_queue, time_elapsed')
                  /\ process_table'[current_running'].status = "RUNNING"]_vars

\* C5, dispatch part alone: the same tick, whatever it accessed, leaves a
\* process with a reached wakeup tick RUNNING.
C5_IdleTickDispatch ==
    [][(/\ last_handler' = "irq0"
        /\ current_running = NULL
        /\ ready_queue = <<>>
        /\ Expired(process_table, sleeping_queue, time_elapsed') # {})
       => current_running'
            \in Expired(process_table, sleeping_queue, time_elapsed')]_vars

\* C6: disable_count is zero on every return from sysentry, irq0_entry and
\* the allocator and scheduler calls, and from the first instruction of the
\* handler to its last decrement it never falls below 1, so no leave_critical
\* nested in the handler re-enables interrupts.
C6_DisableCount ==
    /\ disable_count = 0
    /\ \A i \in 1..Len(dc_trace) :
         IF i = Len(dc_trace) THEN dc_trace[i] = 0 ELSE dc_trace[i] >= 1
    /\ last_handler \in {"irq0", "sysentry"} => Len(dc_trace) >= 4

\* C6 witness: a preemptable timer tick (three nested critical sections) has
\* switched to a process whose stack was saved by sysentry.
C6_Witness ==
    /\ last_handler = "irq0"
    /\ Len(dc_trace) = 8
    /\ current_running # NULL
    /\ process_table[current_running].saved_sp = "sysentry"

\* C7: a timer tick that finds the current PCB's nesting depth non-zero
\* switches nothing and rotates nothing: current_running and every field of
\* its PCB (status RUNNING, saved stack pointer) are unchanged, the ready
\* queue keeps its PCBs in order and only gains, at its tail, the sleepers
\* whose wakeup tick is reached, the other sleepers stay, every other PCB
\* changes at most its status from SLEEPING to READY, and next_pid and
\* disable_count are unchanged.
C7_NoPreemption ==
    [][(/\ last_handler' = "irq0"
        /\ current_running # NULL
        /\ process_table[current_running].nested_count # 0)
       => LET woken == Expired(process_table, sleeping_queue, time_elapsed')
          IN  /\ current_running' = current_running
              /\ process_table'[current_running] = process_table[current_running]
              /\ process_table[current_running].status = "RUNNING"
              /\ Len(ready_queue') = Len(ready_queue) + Cardinality(woken)
              /\ SubSeq(ready_queue', 1, Len(ready_queue)) = ready_queue
              /\ \A i \in Len(ready_queue) + 1 .. Len(ready_queue') :
                   ready_queue'[i] \in woken
              /\ Range(sleeping_queue') = Range(sleeping_queue) \ woken
              /\ \A p \in Slots :
                   process_table'[p] =
                     IF p \in woken
                     THEN [process_table[p] EXCEPT !.status = "READY"]
                     ELSE process_table[p]
              /\ next_pid' = next_pid
              /\ disable_count' = disable_count]_vars

\* C7 witness: after a non-preemptable tick the running process still has
\* nesting depth non-zero and the stack pointer sysentry saved, and two PCBs
\* wait in the ready queue, the last of them a sleeper that was woken.
C7_Witness ==
    /\ last_handler = "irq0"
    /\ Len(dc_trace) = 4
    /\ current_running # NULL
    /\ process_table[current_running].nested_count # 0
    /\ process_table[current_running].saved_sp = "sysentry"
    /\ Len(ready_queue) = 2
    /\ process_table[ready_queue[2]].wakeup_time > 0
    /\ process_table[ready_queue[1]].wakeup_time = 0

\* C8 as stated: A sleeps WakeMs = 50 ms at tick 0 while B computes.  A is
\* not READY before the fifth timer tick after the call, and once six ticks
\* have been taken A has been current_running.
C8_WakeResponse ==
    WakeSlept =>
      /\ StatusOf(1) # "SLEEPING" => rr.ticks >= CeilDiv(WakeMs, MS_PER_TICK)
      /\ rr.ticks >= CeilDiv(WakeMs, MS_PER_TICK) + 1 => rr.runs[1] >= 1

\* C9: do_exit never returns to the caller.  The call leaves the caller's
\* PCB EXITED and in no queue and installs the head of the ready queue as
\* current_running (status RUNNING, removed from the queue), or leaves
\* current_running empty when the queue is empty; and no later step puts an
\* EXITED PCB into a queue, installs it as current_running, or changes its
\* status to anything but FREE.
C9_ExitNeverReturns ==
    [][/\ Syscall("exit", 0) =>
            /\ process_table'[current_running].status = "EXITED"
            /\ current_running' # current_running
            /\ IF ready_queue = <<>>
               THEN current_running' = NULL /\ ready_queue' = <<>>
               ELSE /\ current_running' = Head(ready_queue)
                    /\ ready_queue' = Tail(ready_queue)
                    /\ process_table'[current_running'].status = "RUNNING"
       /\ \A p \in Slots :
            process_table'[p].status = "EXITED" =>
              /\ p \notin Range(ready_queue') \cup Range(sleeping_queue')
              /\ current_running' # p
       /\ \A p \in Slots :
            StatusOf(p) = "EXITED" =>
              process_table'[p].status \in {"EXITED", "FREE"}]_vars

\* C9 witness: after a process exited, a timer tick rotates two other
\* processes and the exited PCB stays out.
C9_Witness ==
    /\ last_handler = "irq0"
    /\ \E p \in Slots : StatusOf(p) = "EXITED"
    /\ current_running # NULL
    /\ Len(ready_queue) = 1
    /\ process_table[current_running].saved_sp = "irq0"

\* C10: identifiers come from a counter that only grows: a PCB gets a new
\* identifier only in a slot whose status was FREE, the identifier is the
\* counter's value, larger than every identifier in the table, and the
\* counter then grows by one; no two PCBs that are not FREE share an
\* identifier, and each identifier in use is positive and below the counter.
C10_PidsNeverReused ==
    [][/\ next_pid' >= next_pid
       /\ \A p \in Slots :
            process_table'[p].status # "FREE" =>
              /\ process_table'[p].pid > 0
              /\ process_table'[p].pid < next_pid'
              /\ \A q \in Slots \ {p} :
                   process_table'[q].status # "FREE" =>
                     process_table'[q].pid # process_table'[p].pid
       /\ \A p \in Slots :
            process_table'[p].pid \notin {0, process_table[p].pid} =>
              /\ StatusOf(p) = "FREE"
              /\ process_table'[p].pid = next_pid
              /\ next_pid' = next_pid + 1
              /\ \A q \in Slots : process_table[q].pid < next_pid]_vars

\* C10 witness: a slot was freed and handed out again (its identifier is
\* larger than any first allocation gives it) while another PCB is EXITED.
C10_Witness ==
    /\ \E p \in Slots : process_table[p].pid > p
    /\ \E q \in Slots : StatusOf(q) = "EXITED" /\ process_table[q].pid > 0

\* C11: pcb_allocate returns the empty handle exactly when no slot of the
\* table is FREE; such a call changes no PCB, takes no identifier from the
\* counter, touches no queue and leaves current_running alone; and every
\* call, failed or not, raises the interrupt-disable depth by one and
\* restores it to its value at entry.
C11_AllocExhaustion ==
    [][PcbAllocateAny =>
         /\ (retval' = NULL) <=> (\A p \in Slots : StatusOf(p) # "FREE")
         /\ retval' = NULL =>
               /\ process_table' = process_table
               /\ next_pid' = next_pid
               /\ pending' = pending
               /\ UNCHANGED <<ready_queue, sleeping_queue, current_running,
                              time_elapsed>>
         /\ retval' # NULL =>
               /\ StatusOf(retval') = "FREE"
               /\ next_pid' = next_pid + 1
         /\ dc_trace' = <<disable_count + 1, disable_count>>
         /\ disable_count' = disable_count]_vars

\* C11 witness: pcb_allocate has just returned the empty handle from a full
\* table in which one PCB is EXITED, one is RUNNING and one is READY in the
\* ready queue.
C11_Witness ==
    /\ last_handler = "pcb_allocate"
    /\ retval = NULL
    /\ \A p \in Slots : StatusOf(p) # "FREE"
    /\ \E p \in Slots : StatusOf(p) = "EXITED"
    /\ \E p \in Slots : StatusOf(p) = "RUNNING"
    /\ ready_queue # <<>>
    /\ next_pid = MaxProcesses + 1

\* C12: priority is advisory only.  Two executions that perform the same
\* operations and differ only in the priorities passed to do_setpriority
\* have, after every step, the same current_running and the same ready and
\* sleeping queues, PCB for PCB and in the same order.
C12_PriorityAdvisory ==
    /\ twin.cur = current_running
    /\ twin.rq = ready_queue
    /\ twin.sq = sleeping_queue

\* C12 witness: a timer tick has rotated two processes whose priorities are
\* ordered one way in the first execution and the other way in the second,
\* while a process of either priority waits in the ready queue.
C12_Witness ==
    /\ last_handler = "irq0"
    /\ current_running # NULL
    /\ Len(ready_queue) = 1
    /\ process_table[current_running].saved_sp = "irq0"
    /\ LET p == current_running
           q == ready_queue[1]
       IN  /\ process_table[p].priority < process_table[q].priority
           /\ twin.pt[p].priority > twin.pt[q].priority

\* C13: priority clamping.  With a current process, do_setpriority(p)
\* followed by do_getpriority returns MIN_PRIORITY if p < MIN_PRIORITY,
\* MAX_PRIORITY if p > MAX_PRIORITY and p otherwise; do_setpriority writes
\* that value into the current PCB and changes nothing else, do_getpriority
\* returns the current PCB's priority and changes nothing, and every PCB's
\* priority is within [MIN_PRIORITY, MAX_PRIORITY].  With no current
\* process do_getpriority returns 0 and do_setpriority changes no PCB.
C13_PriorityClamp ==
    [][/\ \A p \in PrioArgs :
            DoSetGetPriority(p) =>
              /\ retval' = IF current_running = NULL THEN 0 ELSE Clamp(p)
              /\ process_table' =
                   IF current_running = NULL THEN process_table
                   ELSE [process_table EXCEPT ![current_running].priority = Clamp(p)]
       /\ \A p \in PrioArgs :
            DoSetPriority(p) =>
              process_table' =
                IF current_running = NULL THEN process_table
                ELSE [process_table EXCEPT ![current_running].priority = Clamp(p)]
       /\ \A p \in PrioArgs :
            Syscall("setpriority", p) =>
              process_table'[current_running].priority = Clamp(p)
       /\ DoGetPriority =>
            /\ retval' = IF current_running = NULL THEN 0
                         ELSE process_table[current_running].priority
            /\ process_table' = process_table
       /\ \A q \in Slots :
            /\ process_table'[q].priority >= MIN_PRIORITY
            /\ process_table'[q].priority <= MAX_PRIORITY]_vars

\* C13 witness: do_getpriority has just returned MAX_PRIORITY for a running
\* process while another PCB holds MIN_PRIORITY.
C13_Witness ==
    /\ last_handler = "do_getpriority"
    /\ current_running # NULL
    /\ retval = MAX_PRIORITY
    /\ \E q \in Slots : StatusOf(q) # "FREE" /\ process_table[q].priority = MIN_PRIORITY

\* C13 witness for the empty case: do_getpriority has returned 0 while no
\* process is current and a sleeper keeps the priority it was given.
C13_WitnessEmpty ==
    /\ last_handler = "do_getpriority"
    /\ current_running = NULL
    /\ booted
    /\ retval = 0
    /\ \E q \in Slots : StatusOf(q) = "SLEEPING" /\ process_table[q].priority = MAX_PRIORITY

\* C14: semaphore hand-off accounting, for a semaphore initialised to 0.
\* The value is never negative and is 0 while a process waits; the value
\* less the number of waiters equals the up calls less the down calls; the
\* waiter queue holds exactly the down-callers that are WAITING; once
\* SemDowns = 3 processes have called down and SemUps = 2 have called up,
\* the value is 0, one down-caller is WAITING in the waiter queue and two
\* have returned or are READY in the ready queue about to return; and up
\* with a non-empty waiter queue moves the head waiter to the tail of the
\* ready queue with status READY and leaves the value alone, while up with
\* an empty waiter queue increments the value.
C14_SemaphoreHandoff ==
    [][/\ sync'.sem_value >= 0
       /\ sync'.sem_waiters # <<>> => sync'.sem_value = 0
       /\ sync'.sem_value - Len(sync'.sem_waiters)
            = Cardinality(calls'.ups)
              - Cardinality({p \in Slots : calls'.down[p] # "none"})
       /\ \A p \in Slots :
            /\ calls'.down[p] = "waiting" <=> Occ(sync'.sem_waiters, p) = 1
            /\ calls'.down[p] = "waiting" <=> process_table'[p].status = "WAITING"
            /\ Occ(sync'.sem_waiters, p) <= 1
            /\ calls'.down[p] = "woken" =>
                 process_table'[p].status = "READY" /\ Occ(ready_queue', p) = 1
       /\ (/\ Cardinality({p \in Slots : calls'.down[p] # "none"}) = SemDowns
           /\ Cardinality(calls'.ups) = SemUps)
          => /\ sync'.sem_value = 0
             /\ Len(sync'.sem_waiters) = SemDowns - SemUps
             /\ Cardinality({p \in Slots : calls'.down[p] \in {"woken", "returned"}})
                  = SemUps
       /\ SyscallSync("semaphore_up") =>
            IF sync.sem_waiters # <<>>
            THEN /\ sync'.sem_value = sync.sem_value
                 /\ sync'.sem_waiters = Tail(sync.sem_waiters)
                 /\ ready_queue' = Append(ready_queue, Head(sync.sem_waiters))
                 /\ process_table'[Head(sync.sem_waiters)].status = "READY"
                 /\ current_running' = current_running
            ELSE /\ sync'.sem_value = sync.sem_value + 1
                 /\ sync'.sem_waiters = <<>>
                 /\ ready_queue' = ready_queue]_vars

\* C14 witness: three processes have called down and two others have called
\* up; two of the down-callers were blocked and have returned after the
\* hand-off, the third waits, and the value is 0.
C14_Witness ==
    /\ Cardinality(Downers) = SemDowns
    /\ Cardinality(calls.ups) = SemUps
    /\ calls.ups \cap Downers = {}
    /\ Cardinality({p \in Slots : calls.down[p] = "returned"}) = 2
    /\ Cardinality({p \in Slots : StatusOf(p) = "WAITING"}) = 1
    /\ \E p \in Slots : calls.down[p] = "returned" /\ process_table[p].saved_sp = "sysentry"
                          /\ current_running = p
    /\ sync.sem_value = 0

\* The processes that use the barrier.
BarParts == 1..BarSize

\* Every process has made its r-th barrier_wait call.
AllEntered(r) == \A p \in BarParts : calls.entered[p] >= r

\* Every process has returned from its r-th barrier_wait call.
AllReturned(r) == \A p \in BarParts : calls.returned[p] >= r

\* The safety part of C15, in one state.
BarrierSafe ==
    /\ sync.bar_arrived >= 0
    /\ sync.bar_arrived < sync.bar_n
    /\ sync.bar_arrived = Len(sync.bar_waiters)
    /\ \A p \in Slots :
         /\ Occ(sync.bar_waiters, p) = 1 <=> StatusOf(p) = "WAITING"
         /\ Occ(sync.bar_waiters, p) <= 1
         /\ calls.returned[p] <= calls.entered[p]
    /\ \A r \in 1..BarRounds :
         /\ (\E p \in BarParts : calls.returned[p] >= r) => AllEntered(r)
         /\ AllEntered(r) =>
              \A p \in BarParts :
                calls.entered[p] = r =>
                  \/ calls.returned[p] = r
                  \/ StatusOf(p) = "READY" /\ Occ(ready_queue, p) = 1
         /\ (\A p \in BarParts : calls.entered[p] = r) =>
              sync.bar_arrived = 0 /\ sync.bar_waiters = <<>>

\* C15: barrier rendezvous, for a barrier of threshold n = BarSize used by
\* exactly n processes over BarRounds rounds.  In every round no process
\* has returned from barrier_wait before all n have entered it; once all n
\* have entered, none of them is WAITING any more (each has returned or is
\* READY in the ready queue) and the arrived-count is back to 0; the
\* arrived-count is always in 0..n-1 and equals the number of waiters; and,
\* with the timer ticking, all n eventually return.  The second round
\* behaves as the first.
C15_BarrierRendezvous ==
    /\ []BarrierSafe
    /\ \A r \in 1..BarRounds : AllEntered(r) ~> AllReturned(r)

\* C15 witness: the second round is complete: every process has returned
\* from its second barrier_wait and the barrier is as it was initialised.
C15_Witness ==
    /\ AllReturned(BarRounds)
    /\ BarRounds >= 2
    /\ sync.bar_arrived = 0
    /\ \E p \in BarParts : process_table[p].saved_sp = "irq0"

\* C15 witness, mid-round: all but one process wait at the barrier in its
\* second round while the last one runs.
C15_WitnessWaiting ==
    /\ AllReturned(1)
    /\ sync.bar_arrived = BarSize - 1
    /\ current_running # NULL
    /\ calls.entered[current_running] = 1

(***************************************************************************)
(* SpecSleep: the kernel creates SleepMaxPid processes and dispatches the  *)
(* first; the processes sleep, yield and enter and leave non-preemptable   *)
(* kernel code while the timer ticks.  No process exits.                   *)
(***************************************************************************)
StepSleep ==
    \/ pending = {} /\ PcbAllocateUpTo(SleepMaxPid)
    \/ \E pcb \in Slots : SchedulerAdd(pcb)
    \/ Len(ready_queue) = SleepMaxPid /\ KernelStart
    \/ \E cf \in BOOLEAN, garbage \in {0, 1} : Tick(cf, garbage)
    \/ \E ms \in SleepMs : Syscall("sleep", ms)
    \/ Syscall("yield", 0)
    \/ NestEnter
    \/ NestLeave

SpecSleep == Init /\ [][StepSleep /\ UNCHANGED <<rr, twin, sync, calls>>]_vars

(***************************************************************************)
(* SpecSleepFair: SpecSleep with a timer that keeps interrupting.  The     *)
(* hardware raises irq0 whenever interrupts are enabled, so a tick that    *)
(* stays possible is eventually taken.  TimerFires is the part of a tick   *)
(* every tick has: irq0_entry is entered and time_elapsed advances.        *)
(***************************************************************************)
TimerFires ==
    /\ booted
    /\ disable_count = 0
    /\ TimeValue < MaxTime
    /\ last_handler' = "irq0"
    /\ \E cf \in BOOLEAN : time_elapsed' = IncTimeElapsed(K, cf).te

SpecSleepFair == SpecSleep /\ WF_<<last_handler, time_elapsed>>(TimerFires)

(***************************************************************************)
(* SpecYield: SpecSleep with kernel code that calls do_yield itself,       *)
(* whether or not a process is running.                                    *)
(***************************************************************************)
DoYield ==
    /\ booted
    /\ disable_count = 0
    /\ Commit(do_yield(K), "do_yield")
    /\ UNCHANGED <<pending, booted>>

StepYield ==
    \/ StepSleep
    \/ DoYield

SpecYield == Init /\ [][StepYield /\ UNCHANGED <<rr, twin, sync, calls>>]_vars

(***************************************************************************)
(* check_sleeping as the timer handler calls it.                           *)
(***************************************************************************)
\* The kernel state in which the handler of the tick being taken calls
\* check_sleeping: the prologue has raised disable_count and advanced
\* time_elapsed.
CheckSleepingEntry == [enter_critical(K) EXCEPT !.te = time_elapsed']

\* The PCB the (i)th iteration of check_sleeping's loop takes from the
\* sleeping queue, NULL when the loop has stopped before.
Examined(s, i) == queue_get(check_sleeping_loop(enter_critical(s), i - 1).sq)

\* check_sleeping, from state s to state r, is one pass over the sleeping
\* queue of s.
SinglePass(s, r) ==
    LET n     == Len(s.sq)
        woken == Expired(s.pt, s.sq, s.te)
    IN  /\ \A i \in 1..n : Examined(s, i) = s.sq[i]
        /\ \A p \in woken : r.pt[p] = [s.pt[p] EXCEPT !.status = "READY"]
        /\ Len(r.rq) = Len(s.rq) + Cardinality(woken)
        /\ SubSeq(r.rq, 1, Len(s.rq)) = s.rq
        /\ Range(SubSeq(r.rq, Len(s.rq) + 1, Len(r.rq))) = woken
        /\ Len(r.sq) = n - Cardinality(woken)
        /\ Range(r.sq) = Range(s.sq) \ woken
        /\ \A p \in Range(r.sq) : r.pt[p].status = "SLEEPING"
        /\ \A p \in Slots \ woken : r.pt[p] = s.pt[p]
        /\ r.cur = s.cur
        /\ r.te = s.te
        /\ r.dc = s.dc

\* C16: check_sleeping is a single terminating pass.  On every timer tick,
\* with s the size of the sleeping queue when the handler calls it, the
\* loop takes the s PCBs of that queue one after the other, each once;
\* afterwards exactly the PCBs whose wakeup tick is at most the tick
\* counter are READY and stand, once each, behind the PCBs the ready queue
\* held, exactly the others are still SLEEPING in the sleeping queue, once
\* each, and every other PCB, current_running, the counter and the
\* disable depth are as before.  The sleeping queue the handler leaves is
\* the one check_sleeping left.
C16_CheckSleepingPass ==
    [][last_handler' = "irq0"
       => /\ SinglePass(CheckSleepingEntry, check_sleeping(CheckSleepingEntry))
          /\ sleeping_queue' = check_sleeping(CheckSleepingEntry).sq]_vars

\* C16 witness: a tick has just woken a sleeper whose wakeup tick the
\* counter reached while another sleeper, whose tick lies ahead, is still
\* in the sleeping queue.
C16_Witness ==
    /\ last_handler = "irq0"
    /\ \E p \in Range(ready_queue) :
         /\ process_table[p].status = "READY"
         /\ process_table[p].wakeup_time = TimeValue
         /\ TimeValue > 0
    /\ \E q \in Range(sleeping_queue) :
         /\ process_table[q].status = "SLEEPING"
         /\ process_table[q].wakeup_time > TimeValue

\* put_current_running followed by scheduler_entry inside one critical
\* section.
PutThenSchedule(s) ==
    leave_critical(scheduler_entry(put_current_running(enter_critical(s))))

\* C17: do_yield is put_current_running followed by scheduler_entry inside
\* one critical section.  Whenever kernel code calls do_yield, with
\* current_running empty or not and the ready queue empty or not, it leaves
\* the current_running, the PCBs (statuses and nesting depths), the ready
\* queue (contents and order), the sleeping queue and the disable depth
\* that the other two calls, made from the same state, leave.
C17_YieldComposition ==
    [][last_handler' = "do_yield"
       => /\ current_running' = PutThenSchedule(K).cur
          /\ process_table' = PutThenSchedule(K).pt
          /\ ready_queue' = PutThenSchedule(K).rq
          /\ sleeping_queue' = PutThenSchedule(K).sq
          /\ disable_count' = PutThenSchedule(K).dc]_vars

\* C17 witness: do_yield was called by the only runnable process, found
\* the ready queue empty and dispatched its caller again.
C17_Witness ==
    /\ last_handler = "do_yield"
    /\ current_running # NULL
    /\ ready_queue = <<>>
    /\ sleeping_queue # <<>>

\* C17 witness, idle: do_yield was called with current_running empty and
\* the ready queue empty.
C17_WitnessIdle ==
    /\ last_handler = "do_yield"
    /\ current_running = NULL
    /\ ready_queue = <<>>

\* C17 witness, rotation: do_yield handed the CPU to the head of a
\* non-empty ready queue.
C17_WitnessRotate ==
    /\ last_handler = "do_yield"
    /\ current_running # NULL
    /\ Len(ready_queue) >= 2

(***************************************************************************)
(* Dispatch.                                                               *)
(***************************************************************************)
\* The step runs a handler that dispatches: a system call of the running
\* process (do_yield, do_sleep, do_exit), a timer tick that finds the
\* running process preemptable, or the kernel's first scheduler_entry.
Dispatching ==
    \/ last_handler' = "sysentry"
    \/ /\ last_handler' = "irq0"
       /\ current_running # NULL
       /\ process_table[current_running].nested_count = 0
    \/ ~booted /\ booted'

\* The ready queue as the dispatch of the step finds it: behind the PCBs
\* it held come the sleepers the tick woke and the process the tick
\* preempted, or the caller of do_yield.
FoundQueue ==
    IF last_handler' = "irq0"
    THEN put_current_running(check_sleeping(CheckSleepingEntry)).rq
    ELSE IF /\ last_handler' = "sysentry"
            /\ process_table'[current_running].status \notin {"SLEEPING", "EXITED"}
         THEN queue_put(ready_queue, current_running)
         ELSE ready_queue

\* C18: FIFO dispatch.  Whenever scheduler_entry, do_yield, do_sleep or
\* do_exit dispatches and finds the ready queue non-empty, the PCB it
\* installs as current_running is the head of that queue, the PCB that
\* entered it first; that PCB is in the queue no more, its status is
\* RUNNING and its nesting depth 0, and the ready queue left is the rest of
\* the queue found, in the same order.
C18_FifoDispatch ==
    [][Dispatching /\ FoundQueue # <<>>
       => /\ current_running' = Head(FoundQueue)
          /\ ready_queue' = Tail(FoundQueue)
          /\ \A i \in 1..Len(ready_queue') : ready_queue'[i] # current_running'
          /\ process_table'[current_running'].status = "RUNNING"
          /\ process_table'[current_running'].nested_count = 0
          /\ ready_queue # <<>> => current_running' = Head(ready_queue)]_vars

\* C18 witness: do_yield took the head of a ready queue of two; the other
\* PCB and the caller are left in the queue, in that order.
C18_Witness ==
    /\ last_handler = "sysentry"
    /\ current_running # NULL
    /\ process_table[current_running].status = "RUNNING"
    /\ Len(ready_queue) = 2
    /\ \A p \in Range(ready_queue) : process_table[p].status = "READY"

\* C18 witness, exit: do_exit took the head of the ready queue and left one
\* PCB in it.
C18_WitnessExit ==
    /\ last_handler = "sysentry"
    /\ current_running # NULL
    /\ \E p \in Slots : process_table[p].status = "EXITED"
    /\ Len(ready_queue) = 1

\* C18 witness, sleep: do_sleep took the head of the ready queue and left
\* one PCB in it.
C18_WitnessSleep ==
    /\ last_handler = "sysentry"
    /\ current_running # NULL
    /\ Len(sleeping_queue) = 1
    /\ Len(ready_queue) = 1

(***************************************************************************)
(* The preemptable tick.                                                   *)
(***************************************************************************)
\* The step is a timer tick that finds a running process with nesting
\* depth zero.
PreemptingTick ==
    /\ last_handler' = "irq0"
    /\ current_running # NULL
    /\ process_table[current_running].nested_count = 0

\* The processes in the order the tick leaves them: the one it dispatched,
\* then the ready queue.
LineAfter == <<current_running'>> \o ready_queue'

\* C19: a preemptable timer tick runs check_sleeping, then
\* put_current_running, then scheduler_entry.  The line the tick leaves
\* (the dispatched process, then the ready queue) is the ready queue the
\* tick found, then the sleepers whose wakeup tick the counter has reached,
\* then the preempted process: every sleeper woken on the tick stands
\* ahead of the preempted process, and the preempted process is dispatched
\* again on the tick only if the ready queue was empty and no sleeper was
\* woken.
C19_PreemptableTickOrder ==
    [][PreemptingTick
       => LET woken == Expired(process_table, sleeping_queue, time_elapsed')
              n     == Len(ready_queue)
              w     == Cardinality(woken)
          IN  /\ current_running' # NULL
              /\ Len(LineAfter) = n + w + 1
              /\ SubSeq(LineAfter, 1, n) = ready_queue
              /\ Range(SubSeq(LineAfter, n + 1, n + w)) = woken
              /\ LineAfter[n + w + 1] = current_running
              /\ \A p \in woken : process_table'[p].status \in {"READY", "RUNNING"}
              /\ Range(sleeping_queue') = Range(sleeping_queue) \ woken
              /\ current_running' = current_running
                   => ready_queue = <<>> /\ woken = {}]_vars

\* C19 witness: a tick has woken a sleeper and preempted the running
\* process; the sleeper stands in the ready queue ahead of the preempted
\* process, which is its last element.
C19_Witness ==
    /\ last_handler = "irq0"
    /\ current_running # NULL
    /\ Len(ready_queue) = 2
    /\ process_table[ready_queue[1]].wakeup_time = TimeValue
    /\ TimeValue > 0
    /\ process_table[ready_queue[2]].wakeup_time = 0
    /\ process_table[ready_queue[2]].saved_sp = "irq0"
    /\ process_table[current_running].saved_sp = "irq0"

\* C19 witness, alone: a tick found the ready queue empty and no sleeper to
\* wake, and dispatched the preempted process again.
C19_WitnessAlone ==
    /\ last_handler = "irq0"
    /\ current_running # NULL
    /\ process_table[current_running].saved_sp = "irq0"
    /\ ready_queue = <<>>
    /\ Len(sleeping_queue) = SleepMaxPid - 1

(***************************************************************************)
(* Sleepers and the timer.                                                 *)
(***************************************************************************)
Sleeping(p) == process_table[p].status = "SLEEPING"

\* p has been woken: check_sleeping made it READY, and a dispatch of the
\* same tick may have made it RUNNING.
Woken(p) == process_table[p].status \in {"READY", "RUNNING"}

\* C20, second half alone: a SLEEPING process leaves the sleeping queue
\* only on a timer tick that leaves the counter at or past its recorded
\* wakeup tick, and it leaves it READY or dispatched.
C20_WakeOnlyByTick ==
    [][\A p \in Slots :
         (Occ(sleeping_queue, p) > 0 /\ Occ(sleeping_queue', p) = 0)
         => /\ last_handler' = "irq0"
            /\ TimeOf(time_elapsed') >= process_table[p].wakeup_time
            /\ process_table'[p].status \in {"READY", "RUNNING"}]_vars

\* C20 as stated: as long as timer ticks keep occurring, every SLEEPING
\* process is eventually woken (READY, or RUNNING when the same tick
\* dispatched it), whatever the nesting depth of the running process and
\* whatever the other sleepers' wakeup ticks and queue positions; and a
\* SLEEPING process leaves the sleeping queue by no other means than its
\* recorded wakeup tick being reached.
C20_SleepersWake ==
    /\ C20_WakeOnlyByTick
    /\ []<><<TimerFires>>_<<last_handler, time_elapsed>>
         => \A p \in Slots : Sleeping(p) ~> Woken(p)

(***************************************************************************)
(* Order in the sleeping queue.                                            *)
(***************************************************************************)
\* The PCBs of queue q that are in set S, in the order q has them.
RECURSIVE Keep(_, _)
Keep(q, S) ==
    IF q = <<>> THEN <<>>
    ELSE IF Head(q) \in S THEN <<Head(q)>> \o Keep(Tail(q), S)
         ELSE Keep(Tail(q), S)

\* C21: check_sleeping preserves arrival order.  On every timer tick, the
\* PCBs that remain in the sleeping queue after the pass are in the order
\* they had before it, and the PCBs the pass wakes are appended to the
\* ready queue in the order they had in the sleeping queue, whatever their
\* wakeup ticks.  The sleeping queue the handler leaves is the one
\* check_sleeping left.
C21_ArrivalOrder ==
    [][last_handler' = "irq0"
       => LET s     == CheckSleepingEntry
              r     == check_sleeping(CheckSleepingEntry)
              woken == Expired(s.pt, s.sq, s.te)
          IN  /\ r.sq = Keep(s.sq, Range(s.sq) \ woken)
              /\ r.rq = s.rq \o Keep(s.sq, woken)
              /\ sleeping_queue' = Keep(sleeping_queue, Range(sleeping_queue) \ woken)]_vars

\* C21 witness: one tick has woken two sleepers of which the first to
\* arrive has the later wakeup tick; the first was dispatched and the
\* second stands in the ready queue behind it, ahead of the preempted
\* process, which never slept.
C21_Witness ==
    /\ last_handler = "irq0"
    /\ current_running # NULL
    /\ process_table[current_running].wakeup_time = TimeValue
    /\ Len(ready_queue) = 2
    /\ process_table[ready_queue[1]].wakeup_time > 0
    /\ process_table[ready_queue[1]].wakeup_time < TimeValue
    /\ process_table[ready_queue[1]].saved_sp = "sysentry"
    /\ process_table[ready_queue[2]].wakeup_time = 0
    /\ process_table[ready_queue[2]].saved_sp = "irq0"

\* C21 witness, remaining: a tick has passed over two sleepers whose
\* wakeup ticks lie ahead, the first to arrive with the later one; both
\* are still in the sleeping queue in their arrival order.
C21_WitnessRemain ==
    /\ last_handler = "irq0"
    /\ Len(sleeping_queue) = 2
    /\ process_table[sleeping_queue[1]].wakeup_time
         > process_table[sleeping_queue[2]].wakeup_time
    /\ process_table[sleeping_queue[2]].wakeup_time > TimeValue

(***************************************************************************)
(* The running process.                                                    *)
(***************************************************************************)
\* The PCBs with status RUNNING.
RunningSet == {p \in Slots : StatusOf(p) = "RUNNING"}

\* C22: wherever the interrupt-disable depth is zero, at most one PCB has
\* status RUNNING, and current_running is either empty or names a PCB whose
\* status is RUNNING and which is in no queue; this after any sequence of
\* timer ticks, do_yield, do_sleep, do_exit, pcb_allocate and scheduler_add
\* of newly allocated PCBs.
C22_OneRunning ==
    disable_count = 0 =>
      /\ Cardinality(RunningSet) <= 1
      /\ \/ current_running = NULL
         \/ /\ current_running \in Slots
            /\ StatusOf(current_running) = "RUNNING"
            /\ QueueCount(current_running) = 0
      /\ RunningSet \subseteq {current_running}

\* C22 witness: the last runnable process has called do_sleep while another
\* sleeps and a third has exited: current_running is empty and no PCB is
\* RUNNING.
C22_Witness ==
    /\ disable_count = 0
    /\ last_handler = "sysentry"
    /\ current_running = NULL
    /\ RunningSet = {}
    /\ Len(sleeping_queue) = 2
    /\ \E p \in Slots : StatusOf(p) = "EXITED"

\* C22 witness, running: a timer tick has woken a sleeper and dispatched
\* it, and the process the tick preempted waits in the ready queue.
C22_WitnessRunning ==
    /\ disable_count = 0
    /\ last_handler = "irq0"
    /\ current_running # NULL
    /\ RunningSet = {current_running}
    /\ process_table[current_running].wakeup_time = TimeValue
    /\ TimeValue > 0
    /\ Len(ready_queue) >= 1
====
